---- MODULE Spec2Model ----
(***************************************************************************)
(* The waste-prediction pipeline of WMS4/PY/Linear.py (the plotting script *)
(* variant) and WMS4/PY/app.py (the dashboard variant).  Both files run    *)
(* the same module-level sequence: read two CSV files, parse and clean,    *)
(* encode categories, concatenate, select features, mean-impute, split,    *)
(* fit and evaluate, present.  One action models one statement group of    *)
(* the script; `pc` is the position of the interpreter in the module.      *)
(*                                                                         *)
(* Numbers are exact rationals <<n, d>> with d > 0 (floating-point rounding*)
(* is not modelled); NaN is <<0, 0>>.  The library estimators are          *)
(* uninterpreted: a fitted model, its predictions and its MSE are          *)
(* represented by the arguments the code passes to fit, predict and        *)
(* mean_squared_error.                                                     *)
(***************************************************************************)
EXTENDS Integers, Sequences, FiniteSets, TLC

\* ------------------------------------------------------------------ bounds

\* Most rows in the two files together, rows drawn from every kind of row.
MaxRich == 3
\* Most rows in the two files together, rows drawn from the plain kinds.
MaxPlain == 6

\* -------------------------------------------------------- program constants

\* train_test_split(..., test_size=0.2, ...), in percent.
TestSizePercent == 20
\* random_state=42 of train_test_split and of the tree-based estimators.
RandomState == 42

\* ------------------------------------------------------------------ values

NaN == <<0, 0>>
NaT == "NaT"
\* A missing cell of an object (string) column.
NoValue == "NaN"

Num(v) == <<v, 1>>
IsNaN(c) == c[2] = 0

Abs(i) == IF i < 0 THEN -i ELSE i

RECURSIVE Gcd(_, _)
Gcd(a, b) == IF b = 0 THEN a ELSE Gcd(b, a % b)

\* The rational n/d in lowest terms, d > 0.
Ratio(n, d) ==
    LET g == Gcd(Abs(n), d)
    IN  <<n \div g, d \div g>>

\* ------------------------------------------------------------ CSV parsing

\* Cell texts pandas.read_csv reads as missing (its default na_values), as far
\* as the inputs use them.
NaValues == {"", "NA"}

\* read_csv on a cell of a numeric column: the text as a float.
ParseFloat(s) ==
    CASE s \in NaValues -> NaN
      [] s = "1"  -> Num(1)
      [] s = "2"  -> Num(2)
      [] s = "3"  -> Num(3)
      [] s = "4"  -> Num(4)
      [] s = "10" -> Num(10)
      [] s = "12" -> Num(12)

\* read_csv on a cell of a string column.
ParseObject(s) == IF s \in NaValues THEN NoValue ELSE s

NumericColumns ==
    {"weight_kg", "cost_per_kg", "storage_duration_days", "predicted_waste_next_day"}

\* The dataset-specific categorical column: recyclable in Gdata.csv, hazardous
\* in Hdata.csv.
OwnCategorical(ds) == IF ds = "g" THEN "recyclable" ELSE "hazardous"

CategoricalColumns(ds) == {"disposal_method", OwnCategorical(ds)}

Columns(ds) == {"generated_date"} \cup NumericColumns \cup CategoricalColumns(ds)

\* One line of a CSV file as a row of the DataFrame; idx is its index label.
ReadRow(line, i) ==
    [c \in DOMAIN line \cup {"idx"} |->
        IF c = "idx" THEN i
        ELSE IF c \in NumericColumns THEN ParseFloat(line[c])
        ELSE ParseObject(line[c])]

\* pd.read_csv: a RangeIndex 0..n-1 over the lines of the file.
read_csv(file) == [i \in 1..Len(file.lines) |-> ReadRow(file.lines[i], i - 1)]

\* ------------------------------------------------------------------ inputs

\* The kinds of CSV line the inputs are built from.
PlainKinds == {"full", "gaps"}
RichKinds == PlainKinds \cup {"usdate", "junkdate", "nodate", "notarget"}

Line(ds, kind) ==
    [c \in Columns(ds) |->
        CASE c = "generated_date" ->
                CASE kind = "usdate"   -> "01/05/2024"
                  [] kind = "junkdate" -> "soon"
                  [] kind = "nodate"   -> ""
                  [] kind = "full"     -> "2024-01-06"
                  [] OTHER             -> "2024-01-05"
          [] c = "weight_kg" ->
                CASE kind = "gaps" -> ""
                  [] kind = "full" -> "3"
                  [] OTHER         -> "1"
          [] c = "cost_per_kg" -> IF kind = "gaps" THEN "NA" ELSE "2"
          [] c = "storage_duration_days" -> IF kind = "gaps" THEN "" ELSE "4"
          [] c = "disposal_method" ->
                CASE kind = "gaps"     -> ""
                  [] kind = "full"     -> "compost"
                  [] kind = "junkdate" -> "incinerate"
                  [] OTHER             -> "landfill"
          [] c = "predicted_waste_next_day" ->
                CASE kind = "notarget" -> ""
                  [] kind = "full"     -> "12"
                  [] OTHER             -> "10"
          [] OTHER ->   \* recyclable / hazardous
                CASE kind = "gaps" -> "NA"
                  [] kind = "full" -> "no"
                  [] OTHER         -> "yes"]

SeqsUpTo(S, n) == UNION {[1..k -> S] : k \in 0..n}

\* Every way to cut a sequence of at most n kinds into the two files.
KindPairs(kinds, n) ==
    UNION {{<<SubSeq(s, 1, i), SubSeq(s, i + 1, Len(s))>> : i \in 0..Len(s)} :
              s \in SeqsUpTo(kinds, n)}

File(ds, ks) == [status |-> "ok", lines |-> [i \in 1..Len(ks) |-> Line(ds, ks[i])]]

\* A file that is not there, and one whose text is not a CSV table.
BrokenFile(st) == [status |-> st, lines |-> <<>>]

GoodInputs ==
    {<<File("g", p[1]), File("h", p[2])>> :
        p \in KindPairs(RichKinds, MaxRich) \cup KindPairs(PlainKinds, MaxPlain)}

BrokenInputs ==
    LET some == {<<>>, <<"full">>, <<"full", "gaps">>}
        bad  == {"missing", "malformed"}
    IN  {<<BrokenFile(st), File("h", ks)>> : st \in bad, ks \in some}
        \cup {<<File("g", ks), BrokenFile(st)>> : st \in bad, ks \in some}
        \cup {<<BrokenFile(s1), BrokenFile(s2)>> : s1 \in bad, s2 \in bad}

Inputs == GoodInputs \cup BrokenInputs

\* ----------------------------------------------------------- date parsing

\* The strftime format pandas guesses for a date text, "" when it guesses none.
DateFormat(s) ==
    CASE s \in {"2024-01-05", "2024-01-06"} -> "%Y-%m-%d"
      [] s = "01/05/2024" -> "%m/%d/%Y"
      [] OTHER -> ""

\* The timestamp a date text stands for.
Timestamp(s) ==
    CASE s = "2024-01-05" -> "2024-01-05 00:00:00"
      [] s = "2024-01-06" -> "2024-01-06 00:00:00"
      [] s = "01/05/2024" -> "2024-01-05 00:00:00"

\* One element parsed on its own, errors='coerce'.
ParseDate(s) == IF DateFormat(s) = "" THEN NaT ELSE Timestamp(s)

\* One element parsed with a fixed format, errors='coerce'.
ParseDateAs(s, fmt) == IF DateFormat(s) = fmt THEN Timestamp(s) ELSE NaT

\* The format guessed from the first non-null element of a column.
GuessedFormat(col) ==
    LET nonnull == SelectSeq(col, LAMBDA v : v # NoValue)
    IN  IF nonnull = <<>> THEN "" ELSE DateFormat(nonnull[1])

\* pd.to_datetime(col, errors='coerce'[, format='mixed']).  Without a format
\* the one guessed from the first non-null element is applied to every
\* element; when none can be guessed, and with format='mixed', every element
\* is parsed on its own.
to_datetime(col, mixed) ==
    LET fmt == GuessedFormat(col)
    IN  [i \in 1..Len(col) |->
            IF mixed \/ fmt = "" THEN ParseDate(col[i])
            ELSE ParseDateAs(col[i], fmt)]

Column(df, c) == [i \in 1..Len(df) |-> df[i][c]]

\* df[c] = values, row by row.
Assign(df, c, values) == [i \in 1..Len(df) |-> [df[i] EXCEPT ![c] = values[i]]]

\* --------------------------------------------------------------- cleaning

\* isna() of the cell of row r in column c, before the categories are encoded.
IsNull(r, c) ==
    IF c \in NumericColumns THEN IsNaN(r[c]) ELSE r[c] \in {NaT, NoValue}

\* A slip: dropna() without the subset drops a row for any missing cell.
dropna_any(df, c) == SelectSeq(df, LAMBDA r : \A k \in DOMAIN r \ {"idx"} : ~IsNull(r, k))

\* df.dropna(subset=[c]): the rows keep their order and their index labels.
dropna(df, c) == SelectSeq(df, LAMBDA r : ~IsNull(r, c))

\* --------------------------------------------------------------- encoding

\* Python's order of the category labels (str comparison).
LabelOrder == <<"compost", "incinerate", "landfill", "no", "yes">>

Rank(s) == CHOOSE i \in 1..Len(LabelOrder) : LabelOrder[i] = s

\* The categories of a column: its distinct non-null values.
Categories(col) == {col[i] : i \in 1..Len(col)} \ {NoValue}

\* col.astype('category').cat.codes: the position of the value among the
\* sorted categories, -1 for a missing value.
cat_codes(col) ==
    [i \in 1..Len(col) |->
        IF col[i] = NoValue THEN -1
        ELSE Cardinality({v \in Categories(col) : Rank(v) < Rank(col[i])})]

Encode(df, ds) ==
    LET d1 == Assign(df, "disposal_method", cat_codes(Column(df, "disposal_method")))
    IN  Assign(d1, OwnCategorical(ds), cat_codes(Column(d1, OwnCategorical(ds))))

\* ---------------------------------------------------------------- merging

features ==
    <<"weight_kg", "cost_per_kg", "disposal_method", "recyclable", "hazardous",
      "storage_duration_days">>
target == "predicted_waste_next_day"

FeatureSet == {features[i] : i \in 1..Len(features)}

MergedColumns == Columns("g") \cup Columns("h")

\* A row of one table as a row of the concatenation, under index label i: a
\* column the table lacks is NaN, and the category codes become floats beside
\* them.
Widen(r, i) ==
    [c \in MergedColumns \cup {"idx"} |->
        IF c = "idx" THEN i
        ELSE IF c \notin DOMAIN r THEN NaN
        ELSE IF c \in CategoricalColumns("g") \cup CategoricalColumns("h") THEN Num(r[c])
        ELSE r[c]]

\* A slip: without ignore_index the rows keep the labels of their tables.
ConcatIndex_kept(g, h) == [i \in 1..(Len(g) + Len(h)) |-> (g \o h)[i].idx]

\* The index labels pd.concat gives the rows: 0..n-1 with ignore_index=True.
ConcatIndex(g, h) == [i \in 1..(Len(g) + Len(h)) |-> i - 1]

\* pd.concat([g, h], ignore_index=True)
concat(g, h) ==
    LET rows == g \o h
        index == ConcatIndex(g, h)
    IN  [i \in 1..Len(rows) |-> Widen(rows[i], index[i])]

\* merged_data[features]
SelectColumns(df, cols) ==
    [i \in 1..Len(df) |-> [c \in cols \cup {"idx"} |-> df[i][c]]]

\* merged_data[target]
SelectTarget(df) == [i \in 1..Len(df) |-> [idx |-> df[i].idx, value |-> df[i][target]]]

\* ------------------------------------------------------------- imputation

RECURSIVE SumNum(_)
SumNum(cells) == IF cells = <<>> THEN 0 ELSE cells[1][1] + SumNum(Tail(cells))

\* DataFrame.mean() of one column: NaN cells are skipped, and the mean of no
\* cell at all is NaN.  (Before imputation every cell is a whole number.)
ColumnMean(df, c) ==
    LET present == SelectSeq(Column(df, c), LAMBDA v : ~IsNaN(v))
    IN  IF present = <<>> THEN NaN ELSE Ratio(SumNum(present), Len(present))

\* X.mean()
mean(df) == [c \in FeatureSet |-> ColumnMean(df, c)]

\* X.fillna(values): a NaN cell takes the value of its column; a NaN value
\* fills nothing.
fillna(df, values) ==
    [i \in 1..Len(df) |->
        [c \in DOMAIN df[i] |->
            IF c # "idx" /\ IsNaN(df[i][c]) THEN values[c] ELSE df[i][c]]]

HasNaN(df) == \E i \in 1..Len(df) : \E c \in FeatureSet : IsNaN(df[i][c])

\* ------------------------------------------------------------------ split

\* numpy.random.RandomState(42).permutation(n): the Fisher-Yates shuffle of
\* 0..n-1 driven by MT19937 seeded with 42.
Permutation42(n) ==
    CASE n = 0 -> <<>>
      [] n = 1 -> <<0>>
      [] n = 2 -> <<1, 0>>
      [] n = 3 -> <<0, 1, 2>>
      [] n = 4 -> <<1, 3, 0, 2>>
      [] n = 5 -> <<1, 4, 2, 0, 3>>
      [] n = 6 -> <<0, 1, 5, 2, 4, 3>>
      [] n = 7 -> <<0, 1, 5, 2, 4, 3, 6>>
      [] n = 8 -> <<1, 5, 0, 7, 2, 4, 3, 6>>
      [] n = 9 -> <<7, 1, 5, 0, 8, 2, 4, 3, 6>>
      [] n = 10 -> <<8, 1, 5, 0, 7, 2, 9, 4, 3, 6>>

\* A slip: with random_state left out the shuffle differs from run to run (two
\* of its outcomes: the one above and the identity).
Shuffles_unseeded(n) == {Permutation42(n), [i \in 1..n |-> i - 1]}

\* The permutations the shuffle of the split may produce: with the seed fixed,
\* the one of that seed.
Shuffles(n) == {Permutation42(n)}

\* n_test = ceil(test_size * n_samples)
NTest(n) == (TestSizePercent * n + 99) \div 100

\* n_train = n_samples - n_test
NTrain(n) == n - NTest(n)

\* ShuffleSplit: the first n_test positions of the permutation are the test
\* rows, the next n_train the training rows.
TestIndices(perm, n) == SubSeq(perm, 1, NTest(n))

\* A slip: the training rows start one position early.
TrainIndices_overlap(perm, n) == SubSeq(perm, NTest(n), NTest(n) + NTrain(n))

TrainIndices(perm, n) == SubSeq(perm, NTest(n) + 1, NTest(n) + NTrain(n))

\* _safe_indexing: the rows at the given positions, in that order.
Take(a, positions) == [k \in 1..Len(positions) |-> a[positions[k] + 1]]

NoSplit == [X_train |-> <<>>, X_test |-> <<>>, y_train |-> <<>>, y_test |-> <<>>]

\* train_test_split(X, y, test_size=0.2, random_state=42) under permutation perm
train_test_split(X_, y_, perm) ==
    [X_train |-> Take(X_, TrainIndices(perm, Len(X_))),
     X_test  |-> Take(X_, TestIndices(perm, Len(X_))),
     y_train |-> Take(y_, TrainIndices(perm, Len(X_))),
     y_test  |-> Take(y_, TestIndices(perm, Len(X_)))]

\* ------------------------------------------------------------- estimators

\* The estimators of each variant, in the order the code fits them.
Models(v) ==
    IF v = "script" THEN <<"Linear Regression">>
    ELSE <<"Linear Regression", "Decision Tree", "Random Forest">>

\* The random_state an estimator is constructed with: none for
\* LinearRegression().
EstimatorSeed(name) == IF name = "Linear Regression" THEN <<>> ELSE <<RandomState>>

\* A slip: the model is fitted on every row, the test rows included.
Evaluate_on_all(name, s) ==
    [name |-> name, random_state |-> EstimatorSeed(name),
     fit_X |-> s.X_train \o s.X_test, fit_y |-> s.y_train \o s.y_test,
     predict_X |-> s.X_test, score_y |-> s.y_test]

\* One pass of the training code as the arguments it hands the library:
\* model.fit(X_train, y_train), y_pred = model.predict(X_test) and
\* mse = mean_squared_error(y_test, y_pred).  The fitted model, y_pred and mse
\* are functions of these and of the estimator and its random_state.
Evaluate(name, s) ==
    [name |-> name, random_state |-> EstimatorSeed(name),
     fit_X |-> s.X_train, fit_y |-> s.y_train,
     predict_X |-> s.X_test, score_y |-> s.y_test]

\* ------------------------------------------------------------------ state

VARIABLES
    variant,      \* "script" (Linear.py) or "dashboard" (app.py)
    gfile, hfile, \* Gdata.csv and Hdata.csv
    run,          \* "first" or "second" execution over the same files
    pc,           \* the statement group the interpreter has reached
    gdata, hdata, merged_data, X, y,
    split,        \* X_train, X_test, y_train, y_test
    results,      \* per model: name, y_pred, mse (in fitting order)
    output,       \* charts shown, lines printed, HTTP server running
    log,          \* the steps of this run, each with what it wrote
    prior         \* the log of the first run, during the second

vars == <<variant, gfile, hfile, run, pc, gdata, hdata, merged_data, X, y,
          split, results, output, log, prior>>

NoOutput == [charts |-> 0, stdout |-> <<>>, figures |-> <<>>, serving |-> FALSE]

\* A step is logged with the position it leaves the interpreter at and, for
\* the steps whose values a later run is compared on, the value it assigned or
\* put out.
Logged(step, value) == log' = Append(log, [step |-> step, pc |-> pc', wrote |-> value])

Fresh ==
    /\ pc = "start"
    /\ gdata = <<>> /\ hdata = <<>> /\ merged_data = <<>>
    /\ X = <<>> /\ y = <<>>
    /\ split = NoSplit
    /\ results = <<>>
    /\ output = NoOutput
    /\ log = <<>>

Init ==
    /\ variant \in {"script", "dashboard"}
    /\ \E in \in Inputs : gfile = in[1] /\ hfile = in[2]
    /\ run = "first"
    /\ prior = <<>>
    /\ Fresh

Files == <<variant, gfile, hfile, run, prior>>

\* A slip: a failed read is swallowed and the script goes on.
Abort_swallowed(step) ==
    /\ pc' = IF step = "load" THEN "loaded" ELSE "aborted"
    /\ Logged(step, <<>>)

\* An uncaught exception at module level: the interpreter stops there.
Abort(step) ==
    /\ pc' = "aborted"
    /\ Logged(step, <<>>)

\* ---------------------------------------------------------------- actions

\* gdata = pd.read_csv('Gdata.csv'); hdata = pd.read_csv('Hdata.csv')
Load ==
    /\ pc = "start"
    /\ UNCHANGED <<Files, merged_data, X, y, split, results, output>>
    /\ IF gfile.status # "ok"
       THEN /\ UNCHANGED <<gdata, hdata>>
            /\ Abort("load")
       ELSE IF hfile.status # "ok"
       THEN /\ gdata' = read_csv(gfile)
            /\ UNCHANGED hdata
            /\ Abort("load")
       ELSE /\ gdata' = read_csv(gfile)
            /\ hdata' = read_csv(hfile)
            /\ pc' = "loaded"
            /\ Logged("load", <<>>)

ParsedDates(df) ==
    Assign(df, "generated_date",
           to_datetime(Column(df, "generated_date"), variant = "dashboard"))

\* df['generated_date'] = pd.to_datetime(df['generated_date'], errors='coerce')
ParseDates ==
    /\ pc = "loaded"
    /\ gdata' = ParsedDates(gdata)
    /\ hdata' = ParsedDates(hdata)
    /\ pc' = "parsed"
    /\ UNCHANGED <<Files, merged_data, X, y, split, results, output>>
    /\ Logged("parse", <<>>)

DropDates(df) == dropna(df, "generated_date")

\* df = df.dropna(subset=['generated_date'])
DropBadDates ==
    /\ pc = "parsed"
    /\ gdata' = DropDates(gdata)
    /\ hdata' = DropDates(hdata)
    /\ pc' = "dated"
    /\ UNCHANGED <<Files, merged_data, X, y, split, results, output>>
    /\ Logged("dropdate", <<>>)

\* A slip: the target rows are filtered on the wrong column.
DropTargets_wrong_column(df) == dropna(df, "weight_kg")

DropTargets(df) == dropna(df, target)

\* df = df.dropna(subset=['predicted_waste_next_day'])
DropMissingTarget ==
    /\ pc = "dated"
    /\ gdata' = DropTargets(gdata)
    /\ hdata' = DropTargets(hdata)
    /\ pc' = "cleaned"
    /\ UNCHANGED <<Files, merged_data, X, y, split, results, output>>
    /\ Logged("droptarget", <<gdata', hdata'>>)

\* df[c] = df[c].astype('category').cat.codes, for the two categorical columns
\* of each table
EncodeCategories ==
    /\ pc = "cleaned"
    /\ gdata' = Encode(gdata, "g")
    /\ hdata' = Encode(hdata, "h")
    /\ pc' = "encoded"
    /\ UNCHANGED <<Files, merged_data, X, y, split, results, output>>
    /\ Logged("encode", <<gdata', hdata'>>)

\* merged_data = pd.concat([gdata, hdata], ignore_index=True)
Merge ==
    /\ pc = "encoded"
    /\ merged_data' = concat(gdata, hdata)
    /\ pc' = "merged"
    /\ UNCHANGED <<Files, gdata, hdata, X, y, split, results, output>>
    /\ Logged("merge", merged_data')

\* X = merged_data[features]; y = merged_data[target]
SelectFeatures ==
    /\ pc = "merged"
    /\ X' = SelectColumns(merged_data, FeatureSet)
    /\ y' = SelectTarget(merged_data)
    /\ pc' = "selected"
    /\ UNCHANGED <<Files, gdata, hdata, merged_data, split, results, output>>
    /\ Logged("select", <<>>)

Imputed(df) == fillna(df, mean(df))

\* X = X.fillna(X.mean())
Impute ==
    /\ pc = "selected"
    /\ X' = Imputed(X)
    /\ pc' = "imputed"
    /\ UNCHANGED <<Files, gdata, hdata, merged_data, y, split, results, output>>
    /\ Logged("impute", X')

\* X_train, X_test, y_train, y_test = train_test_split(X, y, test_size=0.2,
\* random_state=42).  An empty training set (fewer than two rows) raises
\* ValueError.
Split ==
    /\ pc = "imputed"
    /\ UNCHANGED <<Files, gdata, hdata, merged_data, X, y, results, output>>
    /\ IF NTrain(Len(X)) = 0
       THEN /\ UNCHANGED split
            /\ Abort("split")
       ELSE /\ \E perm \in Shuffles(Len(X)) : split' = train_test_split(X, y, perm)
            /\ pc' = "split"
            /\ Logged("split", split')

\* model.fit(X_train, y_train); y_pred = model.predict(X_test);
\* mse = mean_squared_error(y_test, y_pred), for the next estimator.
\* LinearRegression, the first estimator of both variants, raises ValueError
\* on a NaN; a NaN left in X stands in every row of its column, so no later
\* estimator ever meets one.
FitEvaluate ==
    /\ pc = "split"
    /\ UNCHANGED <<Files, gdata, hdata, merged_data, X, y, split, output>>
    /\ LET name == Models(variant)[Len(results) + 1]
       IN  IF HasNaN(split.X_train) \/ HasNaN(split.X_test)
           THEN /\ UNCHANGED results
                /\ Abort("fit")
           ELSE /\ results' = Append(results, Evaluate(name, split))
                /\ pc' = IF Len(results') = Len(Models(variant))
                         THEN "evaluated" ELSE "split"
                /\ Logged("fit", results'[Len(results')])

\* The two figures of the script and plt.show().
Plot ==
    /\ pc = "evaluated"
    /\ variant = "script"
    /\ output' = [output EXCEPT !.charts = 2]
    /\ pc' = "plotted"
    /\ UNCHANGED <<Files, gdata, hdata, merged_data, X, y, split, results>>
    /\ Logged("plot", output')

\* print(f'Mean Squared Error: {mse}')
PrintMse ==
    /\ pc = "plotted"
    /\ output' = [output EXCEPT !.stdout = Append(@, results[Len(results)])]
    /\ pc' = "done"
    /\ UNCHANGED <<Files, gdata, hdata, merged_data, X, y, split, results>>
    /\ Logged("print", output')

\* The Dash app, one figure and one description per model, and the layout.
BuildDashboard ==
    /\ pc = "evaluated"
    /\ variant = "dashboard"
    /\ output' = [output EXCEPT !.figures =
                    [i \in 1..Len(results) |-> results[i]]]
    /\ pc' = "built"
    /\ UNCHANGED <<Files, gdata, hdata, merged_data, X, y, split, results>>
    /\ Logged("dashboard", output')

\* app.run(debug=True)
Serve ==
    /\ pc = "built"
    /\ output' = [output EXCEPT !.serving = TRUE]
    /\ pc' = "done"
    /\ UNCHANGED <<Files, gdata, hdata, merged_data, X, y, split, results>>
    /\ Logged("serve", output')

\* The program is started again on the same two files: nothing of the first
\* process survives but what it showed.
Restart ==
    /\ pc \in {"done", "aborted"}
    /\ run = "first"
    /\ run' = "second"
    /\ prior' = log
    /\ pc' = "start"
    /\ gdata' = <<>> /\ hdata' = <<>> /\ merged_data' = <<>>
    /\ X' = <<>> /\ y' = <<>>
    /\ split' = NoSplit
    /\ results' = <<>>
    /\ output' = NoOutput
    /\ log' = <<>>
    /\ UNCHANGED <<variant, gfile, hfile>>

Next ==
    \/ Load
    \/ ParseDates
    \/ DropBadDates
    \/ DropMissingTarget
    \/ EncodeCategories
    \/ Merge
    \/ SelectFeatures
    \/ Impute
    \/ Split
    \/ FitEvaluate
    \/ Plot
    \/ PrintMse
    \/ BuildDashboard
    \/ Serve
    \/ Restart

Spec == Init /\ [][Next]_vars

\* ------------------------------------------------------------- properties

\* The step has run in this run and did not raise.
Done(step) ==
    \E i \in 1..Len(log) : log[i].step = step /\ log[i].pc # "aborted"

Lines(file) == 1..Len(file.lines)

\* The lines of a file the cleaner must drop: the date does not come out of
\* to_datetime as a timestamp, or the target is missing.
BadDate(file) ==
    LET parsed == to_datetime(Column(read_csv(file), "generated_date"), variant = "dashboard")
    IN  {i \in Lines(file) : parsed[i] = NaT}
NoTarget(file) == {i \in Lines(file) : file.lines[i][target] \in NaValues}
MustDrop(file) == BadDate(file) \cup NoTarget(file)

NullKey(r) == r.generated_date \in {NaT, NoValue} \/ IsNaN(r[target])

\* C1: once both dropna steps have run, no row of the general-waste table, of
\* the hazardous-waste table or (later) of the merged table has a null
\* generated_date or a null predicted_waste_next_day, in any later state of
\* the run.
C1_NoNullKeysAfterCleaning ==
    Done("droptarget") =>
        /\ \A i \in 1..Len(gdata) : ~NullKey(gdata[i])
        /\ \A i \in 1..Len(hdata) : ~NullKey(hdata[i])
        /\ \A i \in 1..Len(merged_data) : ~NullKey(merged_data[i])

\* C1 witness: a run past imputation that dropped a line for its date and a
\* line for its target and kept a row.
C1_Witness ==
    /\ pc = "imputed"
    /\ BadDate(gfile) \cup BadDate(hfile) # {}
    /\ (NoTarget(gfile) \cup NoTarget(hfile)) \ (BadDate(gfile) \cup BadDate(hfile)) # {}
    /\ Len(merged_data) > 0

\* The cleaned table of a file: the lines that need not be dropped, in file
\* order, under their original labels, the date parsed.
IsCleaned(df, file, ds) ==
    /\ Len(df) = Len(file.lines) - Cardinality(MustDrop(file))
    /\ \A k \in 1..Len(df) :
          /\ df[k].idx + 1 \in Lines(file) \ MustDrop(file)
          /\ DOMAIN df[k] = Columns(ds) \cup {"idx"}
          /\ k > 1 => df[k - 1].idx < df[k].idx
          /\ \A c \in Columns(ds) \ {"generated_date"} :
                df[k][c] = ReadRow(file.lines[df[k].idx + 1], df[k].idx)[c]
          /\ df[k].generated_date = Timestamp(file.lines[df[k].idx + 1].generated_date)

C2_MergedIsConcatenation ==
    Done("merge") =>
        LET g == gdata
            h == hdata
        IN  /\ Len(merged_data) = Len(g) + Len(h)
            /\ \A i \in 1..Len(merged_data) : merged_data[i].idx = i - 1
            /\ \A i \in 1..Len(g) :
                  /\ IsNaN(merged_data[i].hazardous)
                  /\ \A c \in NumericColumns \cup {"generated_date"} :
                        merged_data[i][c] = g[i][c]
                  /\ \A c \in CategoricalColumns("g") : merged_data[i][c] = Num(gdata[i][c])
            /\ \A i \in 1..Len(h) :
                  /\ IsNaN(merged_data[Len(g) + i].recyclable)
                  /\ \A c \in NumericColumns \cup {"generated_date"} :
                        merged_data[Len(g) + i][c] = h[i][c]
                  /\ \A c \in CategoricalColumns("h") :
                        merged_data[Len(g) + i][c] = Num(hdata[i][c])

\* C2 witness: a merge of two non-empty cleaned tables, one of which lost a
\* line before one it kept.
C2_Witness ==
    /\ pc = "merged"
    /\ Len(gdata) > 0 /\ Len(hdata) > 0
    /\ \E i \in 1..Len(gdata) : gdata[i].idx # i - 1

\* C3: after the imputation step the feature matrix has no null in any of the
\* six feature columns, whatever the inputs, and neither have the matrices
\* handed to the split and to the estimators.
C3_NoNullAfterImputation ==
    Done("impute") => ~HasNaN(X) /\ ~HasNaN(split.X_train) /\ ~HasNaN(split.X_test)

Indices(rows) == {rows[k].idx : k \in 1..Len(rows)}

\* C4: the split is a partition of the merged rows: no row on both sides,
\* every row on one, each row's features and target on the same side, and the
\* test side within one row of 0.2 x the row count.
C4_SplitIsPartition ==
    Done("split") =>
        LET n == Len(merged_data)
        IN  /\ Indices(split.X_train) \cap Indices(split.X_test) = {}
            /\ Indices(split.X_train) \cup Indices(split.X_test) = Indices(merged_data)
            /\ Len(split.X_train) + Len(split.X_test) = n
            /\ Len(split.y_train) = Len(split.X_train)
            /\ Len(split.y_test) = Len(split.X_test)
            /\ \A k \in 1..Len(split.X_train) :
                  /\ split.y_train[k].idx = split.X_train[k].idx
                  /\ split.X_train[k] = X[split.X_train[k].idx + 1]
                  /\ split.y_train[k].value = merged_data[split.X_train[k].idx + 1][target]
            /\ \A k \in 1..Len(split.X_test) :
                  /\ split.y_test[k].idx = split.X_test[k].idx
                  /\ split.X_test[k] = X[split.X_test[k].idx + 1]
                  /\ split.y_test[k].value = merged_data[split.X_test[k].idx + 1][target]
            /\ 100 * Len(split.X_test) - TestSizePercent * n < 100
            /\ TestSizePercent * n - 100 * Len(split.X_test) < 100

\* C4 witness: a split with two test rows and a test row that is not the
\* first merged row.
C4_Witness ==
    /\ pc = "split"
    /\ Len(split.X_test) = 2
    /\ split.X_test[2].idx > 0

Broken == gfile.status # "ok" \/ hfile.status # "ok"

\* C7: a run whose input file is missing or malformed stops at the loader with
\* nothing fitted and nothing put out; in general the step that fails is the
\* last step of its run, no output exists after it, and no step is tried again.
C7_FailureAborts ==
    /\ Broken /\ pc # "start" =>
          /\ pc = "aborted"
          /\ log = <<[step |-> "load", pc |-> "aborted", wrote |-> <<>>]>>
          /\ results = <<>> /\ split = NoSplit /\ output = NoOutput
    /\ pc = "aborted" => output = NoOutput /\ log[Len(log)].pc = "aborted"
    /\ \A i \in 1..Len(log) : log[i].pc = "aborted" => i = Len(log) /\ pc = "aborted"
    /\ \A i, j \in 1..Len(log) :
          i < j /\ log[i].step = log[j].step =>
             log[i].step = "fit" /\ j - i < Len(Models(variant))

\* C7 witness: Gdata.csv was read, Hdata.csv is malformed, the run is over.
C7_Witness ==
    /\ pc = "aborted"
    /\ hfile.status = "malformed"
    /\ Len(gdata) > 0

\* The file line a merged row comes from: its dataset, and the line's cells.
Origin(i) ==
    IF i <= Len(gdata)
    THEN [ds |-> "g", line |-> gfile.lines[gdata[i].idx + 1]]
    ELSE [ds |-> "h", line |-> hfile.lines[hdata[i - Len(gdata)].idx + 1]]

\* The value is missing in the input: the cell is empty, or the row's dataset
\* has no such column.
Missing(o, c) == c \notin DOMAIN o.line \/ o.line[c] \in NaValues

\* The labels of a categorical column among the lines of a dataset that
\* survived cleaning.
SurvivingLabels(ds, c) ==
    LET df == IF ds = "g" THEN gdata ELSE hdata
        file == IF ds = "g" THEN gfile ELSE hfile
    IN  {file.lines[df[k].idx + 1][c] : k \in 1..Len(df)} \ NaValues

\* The dense code of a label: its place among the sorted surviving labels.
DenseCode(ds, c, label) ==
    Cardinality({v \in SurvivingLabels(ds, c) : Rank(v) < Rank(label)})

\* The value a present cell stands for: the number, or the category code.
PresentValue(o, c) ==
    IF c \in NumericColumns THEN ParseFloat(o.line[c])
    ELSE Num(DenseCode(o.ds, c, o.line[c]))

RECURSIVE SumOver(_, _, _)
SumOver(rows, c, acc) ==
    IF rows = {} THEN acc
    ELSE LET i == CHOOSE j \in rows : TRUE
         IN  SumOver(rows \ {i}, c, acc + PresentValue(Origin(i), c)[1])

\* The mean of the non-missing values of a feature over all merged rows.
MeanOfPresent(c) ==
    LET rows == {i \in 1..Len(X) : ~Missing(Origin(i), c)}
    IN  Ratio(SumOver(rows, c, 0), Cardinality(rows))

\* C6: in the imputed feature matrix a value missing in the input is the mean
\* of the column's non-missing values over all merged rows (where the column
\* has one), and a present value is itself (numeric) or its category code.
C6_MissingImputedWithMean ==
    Done("impute") =>
        \A i \in 1..Len(X) : \A c \in FeatureSet :
            IF Missing(Origin(i), c)
            THEN (\E j \in 1..Len(X) : ~Missing(Origin(j), c)) => X[i][c] = MeanOfPresent(c)
            ELSE X[i][c] = PresentValue(Origin(i), c)

\* C6 restricted to the numeric features: these the code does fill with the
\* mean.
C6_NumericImputedWithMean ==
    Done("impute") =>
        \A i \in 1..Len(X) : \A c \in FeatureSet \cap NumericColumns :
            IF Missing(Origin(i), c)
            THEN (\E j \in 1..Len(X) : ~Missing(Origin(j), c)) => X[i][c] = MeanOfPresent(c)
            ELSE X[i][c] = PresentValue(Origin(i), c)

\* The column [1, missing, 3] imputes to [1, 2, 3].
C6_ExampleReached ==
    /\ pc = "imputed"
    /\ Len(X) = 3
    /\ Column(merged_data, "weight_kg") = <<Num(1), NaN, Num(3)>>
    /\ Column(X, "weight_kg") = <<Num(1), Num(2), Num(3)>>

\* C9: after encoding, each categorical column of each table holds codes in
\* 0..k-1, k the number of distinct labels among the surviving rows; two rows
\* share a code exactly when they share a label; every code in 0..k-1 occurs.
DenselyEncoded(df, file, c) ==
    LET label(i) == ParseObject(file.lines[df[i].idx + 1][c])
        k == Cardinality({label(i) : i \in 1..Len(df)} \ {NoValue})
    IN  /\ \A i \in 1..Len(df) : df[i][c] \in 0..(k - 1)
        /\ \A i, j \in 1..Len(df) : (df[i][c] = df[j][c]) <=> (label(i) = label(j))
        /\ \A code \in 0..(k - 1) : \E i \in 1..Len(df) : df[i][c] = code

C9_DenseCodesPerDataset ==
    pc = "encoded" =>
        /\ \A c \in CategoricalColumns("g") : DenselyEncoded(gdata, gfile, c)
        /\ \A c \in CategoricalColumns("h") : DenselyEncoded(hdata, hfile, c)

\* The same label under different codes in the two tables of one run.
C9_CodesDifferAcrossDatasets ==
    /\ pc = "encoded"
    /\ \E i \in 1..Len(gdata) : \E j \in 1..Len(hdata) :
          /\ gfile.lines[gdata[i].idx + 1].disposal_method
                = hfile.lines[hdata[j].idx + 1].disposal_method
          /\ gdata[i].disposal_method # hdata[j].disposal_method

\* The steps of a run in the order of the module.
StepOrder(v) ==
    <<"load", "parse", "dropdate", "droptarget", "encode", "merge", "select",
      "impute", "split">>
    \o [i \in 1..Len(Models(v)) |-> "fit"]
    \o (IF v = "script" THEN <<"plot", "print">> ELSE <<"dashboard", "serve">>)

\* The mean of the non-null cells of a column of the merged table over the
\* given rows (a set of positions, at least one of them non-null).
RECURSIVE SumCells(_, _, _)
SumCells(rows, c, acc) ==
    IF rows = {} THEN acc
    ELSE LET i == CHOOSE j \in rows : TRUE
         IN  SumCells(rows \ {i}, c, acc + merged_data[i][c][1])

MeanOver(rows, c) ==
    LET present == {i \in rows : ~IsNaN(merged_data[i][c])}
    IN  IF present = {} THEN NaN ELSE Ratio(SumCells(present, c, 0), Cardinality(present))

AllRows == 1..Len(merged_data)

\* C10: the steps run in the order clean, encode, merge, impute, split, fit and
\* evaluate; a cell imputation filled holds the mean over all merged rows, the
\* later test rows included; each model is fitted on the training partition
\* and scored on the test partition of the one split.
C10_OrderAndLeak ==
    /\ Len(log) <= Len(StepOrder(variant))
    /\ \A i \in 1..Len(log) : log[i].step = StepOrder(variant)[i]
    /\ Done("impute") =>
          \A i \in AllRows : \A c \in FeatureSet :
              IsNaN(merged_data[i][c]) => X[i][c] = MeanOver(AllRows, c)
    /\ \A k \in 1..Len(results) :
          /\ results[k].name = Models(variant)[k]
          /\ results[k].fit_X = split.X_train /\ results[k].fit_y = split.y_train
          /\ results[k].predict_X = split.X_test /\ results[k].score_y = split.y_test
          /\ Indices(results[k].fit_X) \cap Indices(results[k].predict_X) = {}

\* C10 witness: a model was fitted on a training row holding an imputed value
\* that is not the mean over the training rows: it depends on a test row.
C10_Witness ==
    /\ Len(results) > 0
    /\ \E k \in 1..Len(split.X_train) : \E c \in FeatureSet :
          LET i == split.X_train[k].idx + 1
              train == {split.X_train[m].idx + 1 : m \in 1..Len(split.X_train)}
          IN  /\ IsNaN(merged_data[i][c])
              /\ split.X_train[k][c] # MeanOver(train, c)
              /\ ~IsNaN(MeanOver(train, c))

====
